---- MODULE Spec2Model ----
(***************************************************************************)
(* A model of bibtex_postprocessor.py: the key renaming of                 *)
(* rename_entry_keys (field extraction, candidate derivation, collision    *)
(* probing), the two optional field transforms, and the order in which     *)
(* postprocess_bibtex runs them.                                           *)
(*                                                                         *)
(* A Python str is a sequence of one-character strings, so that splitting, *)
(* lower-casing, concatenation and the decimal form of a suffix are        *)
(* computed character by character.  Two characters have no literal in a   *)
(* TLA+ string and are written as the tokens "BACKTICK" and "VT".          *)
(* An entry is [key |-> str, fields |-> f] where f is a function from the  *)
(* names of the fields the entry has to their values (fields_dict).        *)
(***************************************************************************)
EXTENDS Integers, Sequences, FiniteSets, TLC

VARIABLES
    lib,              \* library.entries, mutated in place
    orig,             \* the library as parsed (never changed)
    pc,               \* position of the running call
    idx,              \* position of the for loop of rename_entry_keys (1-based)
    key_candidate,    \* local of rename_entry_keys, line 61
    library_keys,     \* local of rename_entry_keys, line 64
    i,                \* local of rename_entry_keys, lines 69-71
    remove_notes,     \* argument of postprocess_bibtex
    preserve_titles,  \* argument of postprocess_bibtex
    err,              \* the exceptions raised to the caller (none or one)
    output,           \* the libraries handed to write_bibtex (none or one)
    calls             \* the transforms called directly on the library, in order

vars == <<lib, orig, pc, idx, key_candidate, library_keys, i,
          remove_notes, preserve_titles, err, output, calls>>

-----------------------------------------------------------------------------
(* Bounds of the model *)

MaxEntries == 3
MaxCalls == 2
MaxPieces == 3

-----------------------------------------------------------------------------
(* Strings *)

UpperChars == <<"A","B","C","D","E","F","G","H","I","J","K","L","M",
                "N","O","P","Q","R","S","T","U","V","W","X","Y","Z">>
LowerChars == <<"a","b","c","d","e","f","g","h","i","j","k","l","m",
                "n","o","p","q","r","s","t","u","v","w","x","y","z">>
DigitChars == <<"0","1","2","3","4","5","6","7","8","9">>

\* the lower-case letter of each upper-case letter
LowerOf ==
    [c \in { UpperChars[k] : k \in DOMAIN UpperChars } |->
        LowerChars[CHOOSE k \in DOMAIN UpperChars : UpperChars[k] = c]]

\* str.lower() on one character
LowerChar(c) == IF c \in DOMAIN LowerOf THEN LowerOf[c] ELSE c

\* str.lower()
Lower(s) == [k \in DOMAIN s |-> LowerChar(s[k])]

\* the decimal form of a non-negative integer, as f"{i}" renders it
RECURSIVE Str(_)
Str(n) ==
    IF n < 10 THEN <<DigitChars[n + 1]>>
    ELSE Str(n \div 10) \o <<DigitChars[(n % 10) + 1]>>

\* the characters matched by \s
Whitespace == {" ", "\t", "\n", "\r", "\f", "VT"}

\* the character class of line 45
AuthorDelims == {","} \cup Whitespace

\* the character class of line 53
TitleDelims == {":", "\"", "'", "BACKTICK", ","} \cup Whitespace

\* the list of line 54
Articles == {<<"a">>, <<"a","n">>, <<"t","h","e">>}

\* re.split on a class of single characters, scanning s from position p:
\* tokens are the tokens closed so far, cur the token being read.  Every
\* delimiter closes a token, so empty tokens are kept
RECURSIVE SplitFrom(_, _, _, _, _)
SplitFrom(delims, s, p, tokens, cur) ==
    IF p > Len(s) THEN Append(tokens, cur)
    ELSE IF s[p] \in delims
         THEN SplitFrom(delims, s, p + 1, Append(tokens, cur), <<>>)
         ELSE SplitFrom(delims, s, p + 1, tokens, Append(cur, s[p]))

ReSplit(delims, s) == SplitFrom(delims, s, 1, <<>>, <<>>)

IsNoArticle(part) == part \notin Articles

\* the list comprehension of line 54
DropArticles(parts) == SelectSeq(parts, IsNoArticle)

\* (the same loop breaking at a length of 2 already)
RECURSIVE AccumulateOffByOne(_, _, _)
AccumulateOffByOne(acc, parts, k) ==
    IF k > Len(parts) THEN acc
    ELSE IF Len(acc) >= 2 THEN acc
         ELSE AccumulateOffByOne(acc \o parts[k], parts, k + 1)

\* the loop of lines 55-60 from the k-th part on, entered with
\* title_identifier = acc
RECURSIVE Accumulate(_, _, _)
Accumulate(acc, parts, k) ==
    IF k > Len(parts) THEN acc
    ELSE IF Len(acc) > 2 THEN acc
         ELSE Accumulate(acc \o parts[k], parts, k + 1)

\* lines 53-60
TitleIdentifier(title) ==
    Accumulate(<<>>, DropArticles(ReSplit(TitleDelims, title)), 1)

\* line 45
FirstAuthorSurname(authors) == ReSplit(AuthorDelims, authors)[1]

\* the year as it enters the key, line 43
YearText(year) == year

\* lines 43-46 and 61, for an entry that has the three fields
KeyCandidate(fields) ==
    FirstAuthorSurname(Lower(fields["author"]))
        \o YearText(fields["year"])
        \o TitleIdentifier(Lower(fields["title"]))

\* the fields whose lookup is inside the try of lines 42-46
RequiredFields == {"year", "author", "title"}

\* (the same error naming the candidate last derived instead of entry.key)
MissingInformationStale(entry) ==
    [exc |-> "KeyError",
     msg |-> <<"Missing information (year, author, or title) for entry ", key_candidate>>]

\* the KeyError of lines 48-50
MissingInformation(entry) ==
    [exc |-> "KeyError",
     msg |-> <<"Missing information (year, author, or title) for entry ", entry.key>>]

\* (the keys listed once, before the loop, instead of at every entry)
LibraryKeysStale(l) == [k \in DOMAIN orig |-> orig[k].key]

\* line 64
LibraryKeys(l) == [k \in DOMAIN l |-> l[k].key]

\* `x in list`
InList(x, list) == \E k \in DOMAIN list : list[k] = x

\* (the probe started at 1)
FirstSuffixOne == 2 - 1

\* line 69
FirstSuffix == 2

\* (the suffix left as it is; the suffix raised by 2)
NextSuffixStuck(n) == n

NextSuffixSkip(n) == n + 2

\* line 71
NextSuffix(n) == n + 1

\* f"{key_candidate}{i}", lines 70 and 72
Suffixed(c, n) == c \o Str(n)

\* (a pop that acts on a copy of the mapping)
PopFromCopy(fields, name) == fields

\* dict.pop(name): the mapping without the name
Pop(fields, name) == [f \in DOMAIN fields \ {name} |-> fields[f]]

\* lines 83-87 for one entry
RemoveNote(entry) ==
    IF "note" \in DOMAIN entry.fields
    THEN [entry EXCEPT !.fields = Pop(entry.fields, "note")]
    ELSE entry

\* remove_note_field, lines 82-89
RemoveNoteField(l) == [k \in DOMAIN l |-> RemoveNote(l[k])]

\* (a title already in braces left as it is)
BracedOnce(v) ==
    IF v # <<>> /\ Head(v) = "{" /\ v[Len(v)] = "}" THEN v
    ELSE <<"{">> \o v \o <<"}">>

\* lines 98-100
Braced(v) == <<"{">> \o v \o <<"}">>

\* lines 97-102 for one entry
AddBraces(entry) ==
    IF "title" \in DOMAIN entry.fields
    THEN [entry EXCEPT !.fields["title"] = Braced(entry.fields["title"])]
    ELSE entry

\* add_braces_to_title_field, lines 96-105
AddBracesToTitleField(l) == [k \in DOMAIN l |-> AddBraces(l[k])]

\* (the titles braced before the keys are derived)
PipelineOrderBracesFirst == <<"braces", "rename", "notes", "write">>

\* the order of the calls of postprocess_bibtex, lines 137-160
PipelineOrder == <<"rename", "notes", "braces", "write">>

\* the stage that follows a stage of postprocess_bibtex
After(stage) ==
    LET k == CHOOSE j \in DOMAIN PipelineOrder : PipelineOrder[j] = stage IN
    IF k < Len(PipelineOrder) THEN PipelineOrder[k + 1] ELSE "done"

\* the FileExistsError of lines 146-148
SamePath ==
    [exc |-> "FileExistsError",
     msg |-> <<"New filepath is same as the old filepath, not overwriting. Try setting a new filename.", <<>> >>]

-----------------------------------------------------------------------------
(* The inputs *)

\* "Doe, J"
AuthorDoe == <<"D","o","e",","," ","J">>
Year20 == <<"2","0">>
\* "The Abc" and "abc2": the candidates doe20abc and doe20abc2
TitleAbc == <<"T","h","e"," ","A","b","c">>
TitleAbc2 == <<"a","b","c","2">>
NoteText == <<"n">>
KeyA == <<"a">>
KeyC == <<"d","o","e","2","0","a","b","c">>
KeyC2 == <<"d","o","e","2","0","a","b","c","2">>

\* a function from the names in S to the values v gives them
Fields(S, v) == [f \in S |-> v[f]]

FullAbc == [author |-> AuthorDoe, year |-> Year20, title |-> TitleAbc, note |-> NoteText]
FullAbc2 == [author |-> AuthorDoe, year |-> Year20, title |-> TitleAbc2, note |-> NoteText]

\* two complete entries (one with a note), an entry that lacks one required
\* field and an entry that lacks two
PipelineFields ==
    { FullAbc,
      Fields({"author", "year", "title"}, FullAbc2),
      Fields({"author", "title", "note"}, FullAbc),
      Fields({"year", "note"}, FullAbc2) }

PipelineKeys == {KeyA, KeyC, KeyC2}

PipelineEntries == { [key |-> k, fields |-> f] : k \in PipelineKeys, f \in PipelineFields }

\* the sequences over S of length at most n
SeqUpTo(S, n) == UNION { [1..m -> S] : m \in 0..n }

-----------------------------------------------------------------------------
(* postprocess_bibtex *)

Init ==
    /\ lib \in SeqUpTo(PipelineEntries, MaxEntries)
    /\ orig = lib
    /\ pc = PipelineOrder[1]
    /\ idx = 1
    /\ key_candidate = <<>>
    /\ library_keys = <<>>
    /\ i = 0
    /\ remove_notes \in BOOLEAN
    /\ preserve_titles \in BOOLEAN
    /\ err = <<>>
    /\ output = <<>>
    /\ calls = <<>>

\* lines 41-61: the next entry of the loop; its fields, its candidate
Derive ==
    /\ pc = "rename"
    /\ idx <= Len(lib)
    /\ IF RequiredFields \subseteq DOMAIN lib[idx].fields
       THEN /\ key_candidate' = KeyCandidate(lib[idx].fields)
            /\ pc' = "resolve"
            /\ err' = err
       ELSE /\ err' = Append(err, MissingInformation(lib[idx]))
            /\ pc' = "raised"
            /\ key_candidate' = key_candidate
    /\ UNCHANGED <<lib, orig, idx, library_keys, i, remove_notes,
                   preserve_titles, output, calls>>

\* lines 64-74: the keys in use, and the key when the candidate is free
Resolve ==
    /\ pc = "resolve"
    /\ library_keys' = LibraryKeys(lib)
    /\ IF InList(key_candidate, library_keys')
       THEN /\ i' = FirstSuffix
            /\ pc' = "probe"
            /\ UNCHANGED <<lib, idx>>
       ELSE /\ lib' = [lib EXCEPT ![idx].key = key_candidate]
            /\ idx' = idx + 1
            /\ pc' = "rename"
            /\ i' = i
    /\ UNCHANGED <<orig, key_candidate, remove_notes, preserve_titles,
                   err, output, calls>>

\* lines 70-72: one test of the while loop
Probe ==
    /\ pc = "probe"
    /\ IF InList(Suffixed(key_candidate, i), library_keys)
       THEN /\ i' = NextSuffix(i)
            /\ UNCHANGED <<lib, idx, pc>>
       ELSE /\ lib' = [lib EXCEPT ![idx].key = Suffixed(key_candidate, i)]
            /\ idx' = idx + 1
            /\ pc' = "rename"
            /\ i' = i
    /\ UNCHANGED <<orig, key_candidate, library_keys, remove_notes,
                   preserve_titles, err, output, calls>>

\* line 75: the loop is over
RenameReturn ==
    /\ pc = "rename"
    /\ idx > Len(lib)
    /\ pc' = After("rename")
    /\ UNCHANGED <<lib, orig, idx, key_candidate, library_keys, i,
                   remove_notes, preserve_titles, err, output, calls>>

\* lines 138-139
RemoveNotes ==
    /\ pc = "notes"
    /\ lib' = IF remove_notes THEN RemoveNoteField(lib) ELSE lib
    /\ pc' = After("notes")
    /\ UNCHANGED <<orig, idx, key_candidate, library_keys, i,
                   remove_notes, preserve_titles, err, output, calls>>

\* lines 140-141
PreserveTitles ==
    /\ pc = "braces"
    /\ lib' = IF preserve_titles THEN AddBracesToTitleField(lib) ELSE lib
    /\ pc' = After("braces")
    /\ UNCHANGED <<orig, idx, key_candidate, library_keys, i,
                   remove_notes, preserve_titles, err, output, calls>>

\* lines 142-160: the path of the new file, then the write
Write ==
    /\ pc = "write"
    /\ \E given \in BOOLEAN, same \in BOOLEAN :
          IF ~given /\ same
          THEN /\ err' = Append(err, SamePath)
               /\ pc' = "raised"
               /\ output' = output
          ELSE /\ output' = Append(output, lib)
               /\ pc' = After("write")
               /\ err' = err
    /\ UNCHANGED <<lib, orig, idx, key_candidate, library_keys, i,
                   remove_notes, preserve_titles, calls>>

Next ==
    \/ Derive
    \/ Resolve
    \/ Probe
    \/ RenameReturn
    \/ RemoveNotes
    \/ PreserveTitles
    \/ Write

Spec == Init /\ [][Next]_vars

-----------------------------------------------------------------------------
(* rename_entry_keys on one entry, over a range of authors, years and titles *)

\* "DOE<tab>J", " Doe" and ""
AuthorTab == <<"D","O","E","\t","J">>
AuthorLeadingSpace == <<" ","D","o","e">>
KeyAuthors == {AuthorDoe, AuthorTab, AuthorLeadingSpace, <<>>}

KeyYears == {Year20, <<"Y","2">>}

\* "the rise of ai"
TitleRise == <<"t","h","e"," ","r","i","s","e"," ","o","f"," ","a","i">>
\* one token per delimiter of line 53: x:"y'z`w,v u
TitleDelimited == <<"x",":","\"","y","'","z","BACKTICK","w",",","v"," ","u">>

TitlePieces ==
    { <<"a">>, <<"a","n">>, <<"T","h","e">>, <<"o","f">>, <<"x">>,
      <<" ">>, <<":">>, <<"BACKTICK">>, <<"-">> }

RECURSIVE Flatten(_)
Flatten(ss) == IF ss = <<>> THEN <<>> ELSE Head(ss) \o Flatten(Tail(ss))

KeyTitles ==
    { Flatten(ps) : ps \in SeqUpTo(TitlePieces, MaxPieces) }
        \cup {TitleRise, TitleDelimited}

\* "doe20x", the candidate of (Doe, 20, x)
KeyDoe20x == <<"d","o","e","2","0","x">>

InitKey ==
    /\ \E k \in {KeyA, KeyDoe20x}, a \in KeyAuthors, y \in KeyYears, t \in KeyTitles :
          lib = << [key |-> k, fields |-> [author |-> a, year |-> y, title |-> t]] >>
    /\ orig = lib
    /\ pc = PipelineOrder[1]
    /\ idx = 1
    /\ key_candidate = <<>>
    /\ library_keys = <<>>
    /\ i = 0
    /\ remove_notes = TRUE
    /\ preserve_titles = TRUE
    /\ err = <<>>
    /\ output = <<>>
    /\ calls = <<>>

SpecKey == InitKey /\ [][Next]_vars

-----------------------------------------------------------------------------
(* remove_note_field and add_braces_to_title_field called on a library *)

ApiFields == { Fields(S \cup {"year"}, FullAbc) : S \in SUBSET {"title", "note"} }

ApiEntries == { [key |-> k, fields |-> f] : k \in {KeyA, KeyC}, f \in ApiFields }

InitApi ==
    /\ lib \in SeqUpTo(ApiEntries, MaxEntries)
    /\ orig = lib
    /\ pc = "api"
    /\ idx = 1
    /\ key_candidate = <<>>
    /\ library_keys = <<>>
    /\ i = 0
    /\ remove_notes = FALSE
    /\ preserve_titles = FALSE
    /\ err = <<>>
    /\ output = <<>>
    /\ calls = <<>>

\* a call of remove_note_field(library)
CallRemoveNoteField ==
    /\ pc = "api"
    /\ Len(calls) < MaxCalls
    /\ lib' = RemoveNoteField(lib)
    /\ calls' = Append(calls, "remove_note_field")
    /\ UNCHANGED <<orig, pc, idx, key_candidate, library_keys, i,
                   remove_notes, preserve_titles, err, output>>

\* a call of add_braces_to_title_field(library)
CallAddBracesToTitleField ==
    /\ pc = "api"
    /\ Len(calls) < MaxCalls
    /\ lib' = AddBracesToTitleField(lib)
    /\ calls' = Append(calls, "add_braces_to_title_field")
    /\ UNCHANGED <<orig, pc, idx, key_candidate, library_keys, i,
                   remove_notes, preserve_titles, err, output>>

NextApi ==
    \/ CallRemoveNoteField
    \/ CallAddBracesToTitleField

SpecApi == InitApi /\ [][NextApi]_vars

-----------------------------------------------------------------------------
(* Vocabulary of the properties *)

RenamePcs == {"rename", "resolve", "probe"}

KeyErrorRaised == pc = "raised" /\ err # <<>> /\ err[1].exc = "KeyError"

\* rename_entry_keys has returned normally
RenameReturned ==
    /\ pc \in {"notes", "braces", "write", "done", "raised"}
    /\ ~KeyErrorRaised

\* the step that commits the key of entry idx
Assigns == pc \in {"resolve", "probe"} /\ pc' = "rename"

KeySet(l) == { l[k].key : k \in DOMAIN l }

HasAll(k) == RequiredFields \subseteq DOMAIN orig[k].fields

Cand(k) == KeyCandidate(orig[k].fields)

IsPrefix(p, s) == Len(p) <= Len(s) /\ SubSeq(s, 1, Len(p)) = p

IsDigits(s) == s # <<>> /\ \A k \in DOMAIN s : \E d \in DOMAIN DigitChars : DigitChars[d] = s[k]

\* s is c followed by one or more digits
DigitsAfter(c, s) == IsPrefix(c, s) /\ IsDigits(SubSeq(s, Len(c) + 1, Len(s)))

SameFields(l, m) ==
    /\ DOMAIN l = DOMAIN m
    /\ \A k \in DOMAIN l : l[k].fields = m[k].fields

-----------------------------------------------------------------------------
(* C1: once rename_entry_keys has returned normally, the keys of every two *)
(* distinct entries differ, whatever the original keys were.               *)
C1_UniqueKeys ==
    RenameReturned =>
        \A j, k \in DOMAIN lib : j # k => lib[j].key # lib[k].key

\* three entries that all held the key their common candidate is
C1_Witness ==
    /\ RenameReturned
    /\ Len(lib) = 3
    /\ \A k \in DOMAIN orig : orig[k].key = KeyC /\ HasAll(k) /\ Cand(k) = KeyC

(* C2: an entry whose candidate is the current key of no OTHER entry is    *)
(* given the candidate itself, with no suffix, also when its own current   *)
(* key is the candidate.                                                   *)
C2_CandidateKeptUnlessOthersHoldIt ==
    [][ (Assigns /\ \A j \in DOMAIN lib \ {idx} : lib[j].key # key_candidate)
            => lib'[idx].key = key_candidate ]_vars

(* C3: an entry whose candidate c is a key of the collection is given c    *)
(* followed by the decimal form of the smallest i >= 2 for which c + str(i)*)
(* is not a key of the collection.                                         *)
C3_SmallestFreeSuffix ==
    [][ (Assigns /\ key_candidate \in KeySet(lib))
            => \E m \in 2..(Len(lib) + 1) :
                  /\ lib'[idx].key = key_candidate \o Str(m)
                  /\ key_candidate \o Str(m) \notin KeySet(lib)
                  /\ \A n \in 2..(m - 1) : key_candidate \o Str(n) \in KeySet(lib) ]_vars

\* an entry was given suffix 3 because suffix 2 was in use
C3_Witness ==
    /\ pc = "rename"
    /\ idx > 1
    /\ lib[idx - 1].key = Cand(idx - 1) \o <<"3">>
    /\ Cand(idx - 1) \o <<"2">> \in KeySet(lib)

\* the candidate of every entry that has the three fields
Cands == [k \in DOMAIN orig |-> IF HasAll(k) THEN <<Cand(k)>> ELSE <<>>]

\* C4 as claimed and as amended, for the entries processed so far; cs is Cands
C4_Hypothesis(cs, k) ==
    /\ \E j \in DOMAIN orig : j # k /\ cs[j] = cs[k]
    /\ \A j \in DOMAIN orig :
          orig[j].key # cs[k][1] /\ ~DigitsAfter(cs[k][1], orig[j].key)

C4_Unrelated(cs, k) ==
    \A j \in DOMAIN orig :
        cs[j] # <<>> => /\ ~DigitsAfter(cs[k][1], cs[j][1])
                        /\ ~DigitsAfter(cs[j][1], cs[k][1])

C4_Conclusion(cs, k) ==
    LET rank == Cardinality({ j \in 1..k : cs[j] = cs[k] }) IN
    lib[k].key = IF rank = 1 THEN cs[k][1] ELSE cs[k][1] \o Str(rank)

C4_Processed(k) == pc \in RenamePcs \cup {"notes", "raised"} /\ k < idx /\ HasAll(k)

(* C4 (as claimed): when several entries derive the candidate c and no     *)
(* original key is c or c followed by digits, the first of them gets c,    *)
(* the second c2, the third c3.                                            *)
C4_CascadeInOrder ==
    LET cs == Cands IN
    \A k \in DOMAIN lib :
        (C4_Processed(k) /\ C4_Hypothesis(cs, k)) => C4_Conclusion(cs, k)

(* C4 (amended): the same, for a candidate c such that no entry derives a  *)
(* different candidate that is c followed by digits or that c is followed  *)
(* by digits of.                                                           *)
C4_CascadeInOrderAmended ==
    LET cs == Cands IN
    \A k \in DOMAIN lib :
        (C4_Processed(k) /\ C4_Hypothesis(cs, k) /\ C4_Unrelated(cs, k))
            => C4_Conclusion(cs, k)

\* three entries of one candidate hold c, c2 and c3
C4_Witness ==
    /\ pc = "notes"
    /\ Len(lib) = 3
    /\ \A k \in DOMAIN orig : orig[k].key = KeyA /\ HasAll(k) /\ Cand(k) = KeyC
    /\ lib[1].key = KeyC
    /\ lib[2].key = KeyC2
    /\ lib[3].key = KeyC \o <<"3">>

\* C5, the state after the error
C5_RaisedState ==
    KeyErrorRaised =>
        /\ idx \in DOMAIN lib
        /\ ~HasAll(idx)
        /\ \A j \in 1..(idx - 1) : HasAll(j)
        /\ Len(err) = 1
        /\ err[1].msg[2] = orig[idx].key
        /\ \A j \in idx..Len(lib) : lib[j] = orig[j]
        /\ \A j \in 1..(idx - 1) :
              /\ lib[j].key # orig[j].key
              /\ \/ lib[j].key = Cand(j)
                 \/ \E m \in 2..(Len(lib) + 1) : lib[j].key = Cand(j) \o Str(m)

\* C5, the step that raises
C5_RaisingStep ==
    /\ (pc = "rename" /\ idx \in DOMAIN lib /\ ~HasAll(idx))
          => (pc' = "raised" /\ err' # <<>> /\ err'[1].exc = "KeyError")
    /\ (pc \in RenamePcs /\ pc' = "raised") => lib' = lib

(* C5: when the first entry that lacks a required field is entry k, the    *)
(* run raises an error naming entry k's original key; entry k and the      *)
(* entries after it are as parsed, the entries before it hold the keys     *)
(* assigned to them, and raising changes no entry.                         *)
C5_MissingFieldRaises == []C5_RaisedState /\ [][C5_RaisingStep]_vars

\* the third entry lacks a field; the first two were renamed
C5_Witness ==
    /\ KeyErrorRaised
    /\ idx = 3
    /\ lib[1].key # orig[1].key
    /\ lib[2].key # orig[2].key

-----------------------------------------------------------------------------
(* The candidate key, stated from the words of a text rather than from the *)
(* tokens of a split.                                                      *)

\* the places where a run of non-delimiters starts
WordStarts(delims, s) ==
    { p \in DOMAIN s : s[p] \notin delims /\ (p = 1 \/ s[p - 1] \in delims) }

\* the run of non-delimiters that starts at p
WordAt(delims, s, p) ==
    LET q == CHOOSE q \in p..Len(s) :
                 /\ \A r \in p..q : s[r] \notin delims
                 /\ q = Len(s) \/ s[q + 1] \in delims
    IN SubSeq(s, p, q)

\* the non-empty words of s, in order
Words(delims, s) ==
    LET starts == WordStarts(delims, s) IN
    [n \in 1..Cardinality(starts) |->
        WordAt(delims, s,
               CHOOSE p \in starts : Cardinality({ r \in starts : r < p }) = n - 1)]

IsContentWord(w) == w \notin Articles

\* the words of the lower-cased title that are no article
ContentWords(title) == SelectSeq(Words(TitleDelims, Lower(title)), IsContentWord)

\* how many content words make the identifier: the fewest whose joint length
\* exceeds 2, or all of them
WordsUsed(title) ==
    LET w == ContentWords(title)
        enough == { m \in 0..Len(w) : Len(Flatten(SubSeq(w, 1, m))) > 2 }
    IN IF enough = {} THEN Len(w)
       ELSE CHOOSE m \in enough : \A n \in enough : m <= n

ExpectedIdentifier(title) ==
    Flatten(SubSeq(ContentWords(title), 1, WordsUsed(title)))

\* the lower-cased author up to its first comma or whitespace
ExpectedSurname(author) ==
    LET a == Lower(author)
        q == CHOOSE q \in 0..Len(a) :
                 /\ \A r \in 1..q : a[r] \notin AuthorDelims
                 /\ q = Len(a) \/ a[q + 1] \in AuthorDelims
    IN SubSeq(a, 1, q)

(* C6: the candidate of an entry is surname + year + titleIdentifier with  *)
(* no separator: the surname is the lower-cased author up to its first     *)
(* comma or whitespace, the year is taken as it is, and the identifier     *)
(* joins the first content words of the lower-cased title (articles        *)
(* dropped) until the length exceeds 2: at most three words, none when     *)
(* there is no content word, "rise" for "the rise of ai".                  *)
C6_CandidateKey ==
    pc \in {"resolve", "probe"} =>
        LET f == orig[idx].fields IN
        /\ key_candidate =
              ExpectedSurname(f["author"]) \o f["year"] \o ExpectedIdentifier(f["title"])
        /\ WordsUsed(f["title"]) <= 3
        /\ ContentWords(f["title"]) = <<>> => TitleIdentifier(Lower(f["title"])) = <<>>
        /\ f["title"] = TitleRise =>
              TitleIdentifier(Lower(f["title"])) = <<"r","i","s","e">>
        /\ f["title"] = TitleDelimited =>
              TitleIdentifier(Lower(f["title"])) = <<"x","y","z">>

\* the candidate of (Doe, 20, "the rise of ai") has been derived
C6_Witness ==
    /\ pc = "resolve"
    /\ orig[1].fields["title"] = TitleRise
    /\ orig[1].fields["author"] = AuthorDoe
    /\ key_candidate = <<"d","o","e","2","0","r","i","s","e">>

-----------------------------------------------------------------------------
\* what the transforms of postprocess_bibtex have done to the fields so far
NotesAsParsed == \A k \in DOMAIN lib :
    ("note" \in DOMAIN lib[k].fields) = ("note" \in DOMAIN orig[k].fields)

NotesRemoved == \A k \in DOMAIN lib : "note" \notin DOMAIN lib[k].fields

TitlesAsParsed == \A k \in DOMAIN lib :
    lib[k].fields["title"] = orig[k].fields["title"]

TitlesBraced == \A k \in DOMAIN lib :
    lib[k].fields["title"] = <<"{">> \o orig[k].fields["title"] \o <<"}">>

\* every entry holds a key made of the candidate of its title as parsed
AllRenamed == \A k \in DOMAIN lib :
    HasAll(k) /\ IsPrefix(Cand(k), lib[k].key) /\ lib[k].key # orig[k].key

NotesDone == IF remove_notes THEN NotesRemoved ELSE NotesAsParsed

TitlesDone == IF preserve_titles THEN TitlesBraced ELSE TitlesAsParsed

(* C7: postprocess_bibtex renames every entry, then removes the notes (if  *)
(* enabled), then braces the titles (if enabled), then writes: a step      *)
(* finds the previous ones done on the whole collection, the keys come     *)
(* from the titles as parsed, and when the renaming raises no transform    *)
(* has run and nothing is written.                                         *)
C7_FixedOrder ==
    /\ pc \in RenamePcs => SameFields(lib, orig) /\ output = <<>>
    /\ KeyErrorRaised => SameFields(lib, orig) /\ output = <<>>
    /\ pc = "notes" => AllRenamed /\ SameFields(lib, orig) /\ output = <<>>
    /\ pc = "braces" => AllRenamed /\ NotesDone /\ TitlesAsParsed /\ output = <<>>
    /\ pc = "write" => AllRenamed /\ NotesDone /\ TitlesDone /\ output = <<>>
    /\ pc = "done" => AllRenamed /\ NotesDone /\ TitlesDone /\ output = <<lib>>
    /\ (pc = "raised" /\ ~KeyErrorRaised) =>
           AllRenamed /\ NotesDone /\ TitlesDone /\ output = <<>>

\* a run with both transforms enabled has written two entries, one parsed
\* with a note
C7_Witness ==
    /\ pc = "done"
    /\ remove_notes
    /\ preserve_titles
    /\ Len(lib) = 2
    /\ "note" \in DOMAIN orig[1].fields
    /\ output = <<lib>>

-----------------------------------------------------------------------------
\* how often a transform was called on the library
Count(name) == Cardinality({ k \in DOMAIN calls : calls[k] = name })

\* n characters c
Repeat(c, n) == [k \in 1..n |-> c]

(* C8: remove_note_field deletes the note of every entry that has one,     *)
(* leaves the other entries as they are, changes no key and no other       *)
(* field, and a second application changes nothing.                        *)
C8_RemoveNoteIdempotent ==
    pc = "api" =>
        /\ RemoveNoteField(RemoveNoteField(lib)) = RemoveNoteField(lib)
        /\ DOMAIN RemoveNoteField(lib) = DOMAIN lib
        /\ \A k \in DOMAIN lib :
              LET e == RemoveNoteField(lib)[k] IN
              /\ e.key = lib[k].key
              /\ DOMAIN e.fields = DOMAIN lib[k].fields \ {"note"}
              /\ \A f \in DOMAIN e.fields : e.fields[f] = lib[k].fields[f]
        /\ \A k \in DOMAIN lib :
              /\ lib[k].key = orig[k].key
              /\ DOMAIN lib[k].fields =
                    IF Count("remove_note_field") > 0
                    THEN DOMAIN orig[k].fields \ {"note"}
                    ELSE DOMAIN orig[k].fields
              /\ \A f \in DOMAIN lib[k].fields \ {"title"} :
                    lib[k].fields[f] = orig[k].fields[f]

\* remove_note_field was applied twice to entries with and without a note
C8_Witness ==
    /\ pc = "api"
    /\ calls = <<"remove_note_field", "remove_note_field">>
    /\ \E k \in DOMAIN orig : "note" \in DOMAIN orig[k].fields
    /\ \E k \in DOMAIN orig : "note" \notin DOMAIN orig[k].fields
    /\ NotesRemoved

(* C9: each application of add_braces_to_title_field wraps every title in  *)
(* one more pair of braces, so n applications leave n pairs and a second   *)
(* application differs from the first; an entry with no title is left as   *)
(* it is.                                                                  *)
C9_BracesAccumulate ==
    pc = "api" =>
        LET n == Count("add_braces_to_title_field") IN
        \A k \in DOMAIN lib :
            IF "title" \in DOMAIN orig[k].fields
            THEN /\ "title" \in DOMAIN lib[k].fields
                 /\ lib[k].fields["title"] =
                       Repeat("{", n) \o orig[k].fields["title"] \o Repeat("}", n)
                 /\ AddBraces(AddBraces(lib[k])) # AddBraces(lib[k])
            ELSE /\ "title" \notin DOMAIN lib[k].fields
                 /\ AddBraces(lib[k]) = lib[k]

\* the braces were added twice to a library with and without titles
C9_Witness ==
    /\ pc = "api"
    /\ calls = <<"add_braces_to_title_field", "add_braces_to_title_field">>
    /\ \E k \in DOMAIN orig :
          /\ "title" \in DOMAIN orig[k].fields
          /\ lib[k].fields["title"] = <<"{","{">> \o orig[k].fields["title"] \o <<"}","}">>
    /\ \E k \in DOMAIN orig : "title" \notin DOMAIN orig[k].fields

-----------------------------------------------------------------------------
\* rename_entry_keys has returned or raised
RenameEnded == RenameReturned \/ KeyErrorRaised

C10_SuffixBound ==
    /\ pc = "probe" => i \in 2..(Len(lib) + 1)
    /\ \A k \in DOMAIN lib :
          (pc \in RenamePcs /\ k < idx) =>
              \/ lib[k].key = Cand(k)
              \/ \E m \in 2..(Len(lib) + 1) : lib[k].key = Cand(k) \o Str(m)

\* a bound on the steps rename_entry_keys has left: the entries not yet
\* processed, each worth a derivation, a resolution and the probes, plus
\* what is left of the entry in hand
StepsLeft ==
    IF pc \notin RenamePcs THEN 0
    ELSE (Len(lib) + 1 - idx) * (Len(lib) + 3)
         + CASE pc = "rename" -> Len(lib) + 2
             [] pc = "resolve" -> Len(lib) + 1
             [] pc = "probe" -> Len(lib) + 2 - i

\* a step of rename_entry_keys that changes the state and does not lower
\* the bound
C10_IdleStep == <<Next>>_vars /\ StepsLeft' >= StepsLeft

(* C10: on a collection of n entries rename_entry_keys ends, by returning  *)
(* after the last entry or by raising at the first entry that lacks a      *)
(* field: until then a step that changes the state is always possible and  *)
(* every step lowers a bound on the steps left; the probe loop stops, at a *)
(* suffix of at most n + 1.                                                *)
C10_Terminates ==
    /\ C10_SuffixBound
    /\ StepsLeft >= 0
    /\ RenameEnded \/ ENABLED <<Next>>_vars
    /\ pc \in RenamePcs => ~ENABLED C10_IdleStep

\* the probe loop has reached the suffix n + 1 on three entries
C10_Witness ==
    /\ pc = "probe"
    /\ Len(lib) = 3
    /\ i = Len(lib) + 1
    /\ ~InList(Suffixed(key_candidate, i), library_keys)

====
